---- MODULE Spec2Model ----
(***************************************************************************)
(* Mergington High School activities API (src/src/app.py).                 *)
(*                                                                         *)
(* The store is the SQLite file behind SessionLocal: the activities table  *)
(* (keyed by name) and the participants table (rows id, email,             *)
(* activity_name).  It outlives the process.  The handlers are plain `def` *)
(* endpoints, which FastAPI runs on a thread pool, so several can be in    *)
(* flight at once.  Each handler is cut at its SQL statements: a SELECT    *)
(* reads the committed tables at the moment it runs (the engine sets no    *)
(* isolation level and pysqlite opens no transaction for a SELECT), an     *)
(* INSERT or DELETE is committed by the db.commit() that follows it.       *)
(***************************************************************************)
EXTENDS Integers, Sequences, FiniteSets

VARIABLES
    activities,    \* activities table: name -> [description, schedule, max_participants]
    participants,  \* participants table: set of [id, email, activity_name]
    up,            \* TRUE once startup_event has run in the current process
    req,           \* per worker thread: the request it is handling
    calls,         \* number of requests accepted so far
    restarted,     \* TRUE when the running process started after requests had been served
    log            \* the last two completed requests, most recent first

vars == <<activities, participants, up, req, calls, restarted, log>>

----------------------------------------------------------------------------
(* Bounds and inputs *)

\* Requests accepted in one behaviour.
MaxCalls == 3

\* Worker threads of the pool that can hold a request at the same time.
Threads == {"t1", "t2"}

\* Activity names the clients send: two of the catalog and one that is not.
RequestNames == {"Math Club", "Chess Club", "Robotics Club"}

\* Emails the clients send: one seeded in Math Club, one seeded in Chess
\* Club, one seeded nowhere.
RequestEmails == {"james@mergington.edu", "michael@mergington.edu", "new@mergington.edu"}

----------------------------------------------------------------------------
(* The seed catalog, in the order of the dict literal *)

initial_activities ==
    << [name |-> "Chess Club",
        description |-> "Learn strategies and compete in chess tournaments",
        schedule |-> "Fridays, 3:30 PM - 5:00 PM",
        max_participants |-> 12,
        participants |-> <<"michael@mergington.edu", "daniel@mergington.edu">>],
       [name |-> "Programming Class",
        description |-> "Learn programming fundamentals and build software projects",
        schedule |-> "Tuesdays and Thursdays, 3:30 PM - 4:30 PM",
        max_participants |-> 20,
        participants |-> <<"emma@mergington.edu", "sophia@mergington.edu">>],
       [name |-> "Gym Class",
        description |-> "Physical education and sports activities",
        schedule |-> "Mondays, Wednesdays, Fridays, 2:00 PM - 3:00 PM",
        max_participants |-> 30,
        participants |-> <<"john@mergington.edu", "olivia@mergington.edu">>],
       [name |-> "Soccer Team",
        description |-> "Join the school soccer team and compete in matches",
        schedule |-> "Tuesdays and Thursdays, 4:00 PM - 5:30 PM",
        max_participants |-> 22,
        participants |-> <<"liam@mergington.edu", "noah@mergington.edu">>],
       [name |-> "Basketball Team",
        description |-> "Practice and play basketball with the school team",
        schedule |-> "Wednesdays and Fridays, 3:30 PM - 5:00 PM",
        max_participants |-> 15,
        participants |-> <<"ava@mergington.edu", "mia@mergington.edu">>],
       [name |-> "Art Club",
        description |-> "Explore your creativity through painting and drawing",
        schedule |-> "Thursdays, 3:30 PM - 5:00 PM",
        max_participants |-> 15,
        participants |-> <<"amelia@mergington.edu", "harper@mergington.edu">>],
       [name |-> "Drama Club",
        description |-> "Act, direct, and produce plays and performances",
        schedule |-> "Mondays and Wednesdays, 4:00 PM - 5:30 PM",
        max_participants |-> 20,
        participants |-> <<"ella@mergington.edu", "scarlett@mergington.edu">>],
       [name |-> "Math Club",
        description |-> "Solve challenging problems and participate in math competitions",
        schedule |-> "Tuesdays, 3:30 PM - 4:30 PM",
        max_participants |-> 10,
        participants |-> <<"james@mergington.edu", "benjamin@mergington.edu">>],
       [name |-> "Debate Team",
        description |-> "Develop public speaking and argumentation skills",
        schedule |-> "Fridays, 4:00 PM - 5:30 PM",
        max_participants |-> 12,
        participants |-> <<"charlotte@mergington.edu", "henry@mergington.edu">>] >>

----------------------------------------------------------------------------
(* The tables *)

\* Column(Integer, primary_key=True) on SQLite: a new row takes the largest
\* id in the table plus one (1 in an empty table).
NextId(table) ==
    IF table = {} THEN 1
    ELSE (CHOOSE m \in {p.id : p \in table} : \A p \in table : p.id <= m) + 1

\* add_participant that inserts the row twice (added to the session and
\* again through the relationship).
add_participant_twice(table, activity_name, email) ==
    table \cup {[id |-> NextId(table), email |-> email, activity_name |-> activity_name],
                [id |-> NextId(table) + 1, email |-> email, activity_name |-> activity_name]}

\* add_participant that leaves the row's activity unset
\* (Participant(email=email) with the activity forgotten).
add_participant_unlinked(table, activity_name, email) ==
    table \cup {[id |-> NextId(table), email |-> email, activity_name |-> ""]}

\* Participant(email=email, activity=act); db.add(p)
add_participant(table, activity_name, email) ==
    table \cup {[id |-> NextId(table), email |-> email, activity_name |-> activity_name]}

\* act.participants: the rows of one activity.
RowsOf(table, activity_name) == {p \in table : p.activity_name = activity_name}

\* [p.email for p in act.participants]: the emails of the activity's rows,
\* in id order (the i-th is the row with i-1 rows of smaller id).
EmailList(table, activity_name) ==
    LET rows == RowsOf(table, activity_name)
    IN [i \in 1..Cardinality(rows) |->
          (CHOOSE p \in rows : Cardinality({q \in rows : q.id < p.id}) = i - 1).email]

\* The store as one value.
Store == [activities |-> activities, participants |-> participants]

\* A store file that does not exist yet: create_all makes two empty tables.
EmptyStore == [activities |-> <<>>, participants |-> {}]

----------------------------------------------------------------------------
(* Seeding *)

\* info.get(key, default)
get(info, key, default) == IF key \in DOMAIN info THEN info[key] ELSE default

\* for email in info.get("participants", []): db.add(Participant(...))
RECURSIVE add_all(_, _, _)
add_all(table, activity_name, emails) ==
    IF emails = <<>> THEN table
    ELSE add_all(add_participant(table, activity_name, Head(emails)), activity_name, Tail(emails))

\* for name, info in seed_data.items(): the participant rows, activity by activity.
RECURSIVE seed_rows(_, _)
seed_rows(seed_data, table) ==
    IF seed_data = <<>> THEN table
    ELSE seed_rows(Tail(seed_data),
                   add_all(table, Head(seed_data).name,
                           get(Head(seed_data), "participants", <<>>)))

\* The Activity rows made from the seed data.
seed_activities(seed_data) ==
    [n \in {seed_data[i].name : i \in 1..Len(seed_data)} |->
        LET info == seed_data[CHOOSE i \in 1..Len(seed_data) : seed_data[i].name = n]
        IN [description |-> get(info, "description", ""),
            schedule |-> get(info, "schedule", ""),
            max_participants |-> get(info, "max_participants", 0)]]

\* init_db that recreates the tables and seeds them at every start.
init_db_recreate(store, seed_data) ==
    [activities |-> seed_activities(seed_data),
     participants |-> seed_rows(seed_data, {})]

\* init_db: seed if empty.  The store it leaves.
init_db(store, seed_data) ==
    IF DOMAIN store.activities = {} /\ seed_data # <<>>
    THEN [activities |-> seed_activities(seed_data),
          participants |-> seed_rows(seed_data, store.participants)]
    ELSE store

\* activities_to_dict(db): name -> the activity with its participant emails.
activities_to_dict(store) ==
    [n \in DOMAIN store.activities |->
        [description |-> store.activities[n].description,
         schedule |-> store.activities[n].schedule,
         max_participants |-> store.activities[n].max_participants,
         participants |-> EmailList(store.participants, n)]]

----------------------------------------------------------------------------
(* The store file a process finds when it starts *)

\* Sign-ups to Math Club made through the API in an earlier run of the
\* server: they leave it one below its capacity of 10.
EarlierSignups ==
    <<"emma@mergington.edu", "sophia@mergington.edu", "john@mergington.edu",
      "olivia@mergington.edu", "liam@mergington.edu", "noah@mergington.edu",
      "ava@mergington.edu">>

\* The file after that earlier run.
PersistedStore ==
    LET seeded == init_db(EmptyStore, initial_activities)
    IN [seeded EXCEPT !.participants = add_all(@, "Math Club", EarlierSignups)]

\* Seed data of a deployment without limits: one activity with
\* max_participants 0, one with max_participants not given.
unlimited_activities ==
    << [name |-> "Math Club",
        description |-> "Solve challenging problems and participate in math competitions",
        schedule |-> "Tuesdays, 3:30 PM - 4:30 PM",
        max_participants |-> 0,
        participants |-> <<"james@mergington.edu", "benjamin@mergington.edu">>],
       [name |-> "Chess Club",
        participants |-> <<"michael@mergington.edu">>] >>

\* The file DATABASE_URL names when it was seeded from that data.
UnlimitedStore == init_db(EmptyStore, unlimited_activities)

----------------------------------------------------------------------------
(* Requests *)

\* What a request found and left in the store: the activity names and the
\* participants table.
Snapshot == [names |-> DOMAIN activities, participants |-> participants]

\* A worker thread that runs no handler.
Idle ==
    [pc |-> "idle", op |-> "", activity_name |-> "", email |-> "",
     loaded |-> {}, row |-> 0, session |-> FALSE,
     before |-> [names |-> {}, participants |-> {}]]

\* A completed request: what was asked, the response, and the store when
\* the handler was entered and when it returned.
Entry(r, status, body, table) ==
    [op |-> r.op, activity_name |-> r.activity_name, email |-> r.email,
     status |-> status, body |-> body, before |-> r.before,
     after |-> [names |-> DOMAIN activities, participants |-> table]]

\* A handler that closes its session on the success path only (db.close()
\* after the return value is built, without try/finally).
Respond_close_on_success(t, status, body, table) ==
    /\ req' = [req EXCEPT ![t] = [Idle EXCEPT !.session = (status # 200)]]
    /\ log' = <<Entry(req[t], status, body, table)>> \o (IF log = <<>> THEN <<>> ELSE <<log[1]>>)

\* The handler of thread t returns or raises: `finally: db.close()`, the
\* response goes out and the thread is free again.
Respond(t, status, body, table) ==
    /\ req' = [req EXCEPT ![t] = Idle]
    /\ log' = <<Entry(req[t], status, body, table)>> \o (IF log = <<>> THEN <<>> ELSE <<log[1]>>)

\* No thread is inside a handler.
Quiet == \A t \in Threads : req[t].pc = "idle"

\* lookup that creates an activity it does not find (get-or-create).
lookup_or_create(t, op, activity_name, email) ==
    LET r == [Idle EXCEPT !.op = op, !.activity_name = activity_name,
                          !.email = email, !.before = Snapshot]
    IN /\ up
       /\ req[t].pc = "idle"
       /\ calls < MaxCalls
       /\ calls' = calls + 1
       /\ activities' =
             IF activity_name \in DOMAIN activities THEN activities
             ELSE [n \in DOMAIN activities \cup {activity_name} |->
                     IF n = activity_name
                     THEN [description |-> "", schedule |-> "", max_participants |-> 0]
                     ELSE activities[n]]
       /\ req' = [req EXCEPT ![t] =
                    [r EXCEPT !.pc = IF op = "signup" THEN "check" ELSE "find",
                              !.session = TRUE]]
       /\ UNCHANGED <<participants, up, restarted, log>>

\* db = SessionLocal(); act = db.query(Activity).filter(name == activity_name).first()
\* if not act: raise HTTPException(404)
lookup(t, op, activity_name, email) ==
    LET r == [Idle EXCEPT !.op = op, !.activity_name = activity_name,
                          !.email = email, !.before = Snapshot]
    IN /\ up
       /\ req[t].pc = "idle"
       /\ calls < MaxCalls
       /\ calls' = calls + 1
       /\ IF activity_name \in DOMAIN activities
          THEN /\ req' = [req EXCEPT ![t] =
                            [r EXCEPT !.pc = IF op = "signup" THEN "check" ELSE "find",
                                      !.session = TRUE]]
               /\ UNCHANGED log
          ELSE /\ req' = [req EXCEPT ![t] = Idle]
               /\ log' = <<Entry(r, 404, <<"Activity not found">>, participants)>>
                            \o (IF log = <<>> THEN <<>> ELSE <<log[1]>>)
       /\ UNCHANGED <<activities, participants, up, restarted>>

\* signup_outcome with `>` for `>=` in the capacity check.
signup_outcome_off_by_one(max_participants, loaded, email) ==
    IF \E p \in loaded : p.email = email THEN "already"
    ELSE IF max_participants # 0 /\ Cardinality(loaded) > max_participants THEN "full"
    ELSE "ok"

\* signup_outcome without the already-signed-up check.
signup_outcome_no_duplicate_check(max_participants, loaded, email) ==
    IF max_participants # 0 /\ Cardinality(loaded) >= max_participants THEN "full"
    ELSE "ok"

\* signup_outcome with the capacity check ahead of the already-signed-up check.
signup_outcome_full_first(max_participants, loaded, email) ==
    IF max_participants # 0 /\ Cardinality(loaded) >= max_participants THEN "full"
    ELSE IF \E p \in loaded : p.email = email THEN "already"
    ELSE "ok"

\* signup_outcome that takes max_participants 0 as a limit of zero.
signup_outcome_zero_is_limit(max_participants, loaded, email) ==
    IF \E p \in loaded : p.email = email THEN "already"
    ELSE IF Cardinality(loaded) >= max_participants THEN "full"
    ELSE "ok"

\* The two checks of signup on the loaded participants, in the code's order.
signup_outcome(max_participants, loaded, email) ==
    IF \E p \in loaded : p.email = email THEN "already"
    ELSE IF max_participants # 0 /\ Cardinality(loaded) >= max_participants THEN "full"
    ELSE "ok"

signup_for_activity(t, activity_name, email) == lookup(t, "signup", activity_name, email)

\* act.participants is loaded (one SELECT), then both checks run on it.
signup_check(t) ==
    LET r == req[t]
        loaded == RowsOf(participants, r.activity_name)
        outcome == signup_outcome(activities[r.activity_name].max_participants, loaded, r.email)
    IN /\ r.pc = "check"
       /\ IF outcome = "already"
          THEN Respond(t, 400, <<"Student is already signed up">>, participants)
          ELSE IF outcome = "full"
          THEN Respond(t, 400, <<"Activity is full">>, participants)
          ELSE /\ req' = [req EXCEPT ![t].pc = "commit", ![t].loaded = loaded]
               /\ UNCHANGED log
       /\ UNCHANGED <<activities, participants, up, calls, restarted>>

\* signup_commit that keeps max_participants as the number of places left.
signup_commit_takes_place(t) ==
    LET r == req[t]
    IN /\ r.pc = "commit"
       /\ participants' = add_participant(participants, r.activity_name, r.email)
       /\ activities' = [activities EXCEPT ![r.activity_name].max_participants = @ - 1]
       /\ Respond(t, 200, <<"Signed up ", r.email, " for ", r.activity_name>>, participants')
       /\ UNCHANGED <<up, calls, restarted>>

\* signup_commit that writes back the table as the handler found it at
\* entry, with its row added (the store kept as one document).
signup_commit_writes_back(t) ==
    LET r == req[t]
    IN /\ r.pc = "commit"
       /\ participants' = add_participant(r.before.participants, r.activity_name, r.email)
       /\ Respond(t, 200, <<"Signed up ", r.email, " for ", r.activity_name>>, participants')
       /\ UNCHANGED <<activities, up, calls, restarted>>

\* db.add(participant); db.commit(); return {"message": ...}
signup_commit(t) ==
    LET r == req[t]
    IN /\ r.pc = "commit"
       /\ participants' = add_participant(participants, r.activity_name, r.email)
       /\ Respond(t, 200, <<"Signed up ", r.email, " for ", r.activity_name>>, participants')
       /\ UNCHANGED <<activities, up, calls, restarted>>

unregister_from_activity(t, activity_name, email) == lookup(t, "unregister", activity_name, email)

\* matching without the activity_name filter.
matching_by_email(table, activity_name, email) ==
    {p \in table : p.email = email}

\* The rows db.query(Participant).filter(activity_name == ..., email == ...) matches.
matching(table, activity_name, email) ==
    {p \in table : p.activity_name = activity_name /\ p.email = email}

\* participant = ....first(); if not participant: raise HTTPException(400).
\* The query has no ORDER BY: first() is any one of the matching rows.
unregister_find(t) ==
    LET r == req[t]
        found == matching(participants, r.activity_name, r.email)
    IN /\ r.pc = "find"
       /\ IF found = {}
          THEN Respond(t, 400, <<"Student is not signed up for this activity">>, participants)
          ELSE /\ \E p \in found : req' = [req EXCEPT ![t].pc = "delete", ![t].row = p.id]
               /\ UNCHANGED log
       /\ UNCHANGED <<activities, participants, up, calls, restarted>>

\* delete_row whose DELETE is never committed.
delete_row_not_committed(table, id) == table

\* db.delete(participant): DELETE FROM participants WHERE id = <the row's id>.
delete_row(table, id) == {p \in table : p.id # id}

\* db.delete(participant); db.commit(); return {"message": ...}
\* A DELETE that matches no row is a warning of the ORM, not an exception.
unregister_delete(t) ==
    LET r == req[t]
    IN /\ r.pc = "delete"
       /\ participants' = delete_row(participants, r.row)
       /\ Respond(t, 200, <<"Unregistered ", r.email, " from ", r.activity_name>>, participants')
       /\ UNCHANGED <<activities, up, calls, restarted>>

\* A statement on the session raises (the store file is locked, unreadable
\* or gone): the exception leaves the handler through `finally: db.close()`,
\* which drops whatever was not committed, and the client gets a 500.
store_error(t) ==
    /\ req[t].pc # "idle"
    /\ Respond(t, 500, <<"Internal Server Error">>, participants)
    /\ UNCHANGED <<activities, participants, up, calls, restarted>>

\* @app.get("/activities"): db = SessionLocal()
get_activities(t) ==
    /\ up
    /\ req[t].pc = "idle"
    /\ calls < MaxCalls
    /\ calls' = calls + 1
    /\ req' = [req EXCEPT ![t] = [Idle EXCEPT !.pc = "list", !.op = "list",
                                               !.session = TRUE, !.before = Snapshot]]
    /\ UNCHANGED <<activities, participants, up, restarted, log>>

\* return activities_to_dict(db); finally: db.close().  The SELECTs of the
\* listing are taken as one read of the two tables.
list_activities(t) ==
    /\ req[t].pc = "list"
    /\ Respond(t, 200, activities_to_dict(Store), participants)
    /\ UNCHANGED <<activities, participants, up, calls, restarted>>

\* @app.on_event("startup"): a process starts (no request is in flight in a
\* new process) and runs init_db(seed_data=initial_activities).
startup_event ==
    LET store == init_db(Store, initial_activities)
    IN /\ activities' = store.activities
       /\ participants' = store.participants
       /\ up' = TRUE
       /\ req' = [t \in Threads |-> Idle]
       /\ restarted' = (calls > 0)
       /\ UNCHANGED <<calls, log>>

----------------------------------------------------------------------------
(* Specifications *)

\* The module has been imported, startup has not run; the store file is
\* absent (first run) or is the one an earlier run left.
Init ==
    /\ \E store \in {EmptyStore, PersistedStore} :
          /\ activities = store.activities
          /\ participants = store.participants
    /\ up = FALSE
    /\ req = [t \in Threads |-> Idle]
    /\ calls = 0
    /\ restarted = FALSE
    /\ log = <<>>

\* The pool hands a request to a free thread; the threads are
\* interchangeable, so it is taken to be a fixed one of the free threads.
FreeThread(t) ==
    /\ req[t].pc = "idle"
    /\ t = CHOOSE u \in Threads : req[u].pc = "idle"

\* Requests are served by the thread pool: handlers interleave at their SQL
\* statements.
Next ==
    \/ startup_event
    \/ \E t \in Threads, a \in RequestNames, e \in RequestEmails :
          FreeThread(t) /\ signup_for_activity(t, a, e)
    \/ \E t \in Threads : signup_check(t)
    \/ \E t \in Threads : signup_commit(t)
    \/ \E t \in Threads, a \in RequestNames, e \in RequestEmails :
          FreeThread(t) /\ unregister_from_activity(t, a, e)
    \/ \E t \in Threads : unregister_find(t)
    \/ \E t \in Threads : unregister_delete(t)
    \/ \E t \in Threads : FreeThread(t) /\ get_activities(t)
    \/ \E t \in Threads : list_activities(t)

Spec == Init /\ [][Next]_vars

\* The same handlers when the clients send one request after the other: a
\* request is accepted only when no handler is running.
SeqNext ==
    \/ startup_event
    \/ \E t \in Threads, a \in RequestNames, e \in RequestEmails :
          Quiet /\ FreeThread(t) /\ signup_for_activity(t, a, e)
    \/ \E t \in Threads : signup_check(t)
    \/ \E t \in Threads : signup_commit(t)
    \/ \E t \in Threads, a \in RequestNames, e \in RequestEmails :
          Quiet /\ FreeThread(t) /\ unregister_from_activity(t, a, e)
    \/ \E t \in Threads : unregister_find(t)
    \/ \E t \in Threads : unregister_delete(t)
    \/ \E t \in Threads : Quiet /\ FreeThread(t) /\ get_activities(t)
    \/ \E t \in Threads : list_activities(t)

SeqSpec == Init /\ [][SeqNext]_vars

\* The server started on the store without limits.
UnlimitedInit ==
    /\ activities = UnlimitedStore.activities
    /\ participants = UnlimitedStore.participants
    /\ up = FALSE
    /\ req = [t \in Threads |-> Idle]
    /\ calls = 0
    /\ restarted = FALSE
    /\ log = <<>>

UnlimitedSpec == UnlimitedInit /\ [][Next]_vars

\* The server with a store that can fail under any handler.
FaultNext ==
    \/ Next
    \/ \E t \in Threads : store_error(t)

FaultSpec == Init /\ [][FaultNext]_vars

----------------------------------------------------------------------------
(* Properties *)

\* The rows of an email in an activity, and the number of rows of an activity.
Enrolments(table, activity_name, email) ==
    {p \in table : p.activity_name = activity_name /\ p.email = email}

Count(table, activity_name) ==
    Cardinality({p \in table : p.activity_name = activity_name})

Capacity(activity_name) == activities[activity_name].max_participants

\* C1: with the requests served one after the other, every activity whose
\* max_participants is a positive number C has at most C participant rows.
CapacityRespected ==
    \A a \in DOMAIN activities :
        Capacity(a) > 0 => Count(participants, a) <= Capacity(a)

\* C1's case: a signup has just been refused because the activity is full,
\* and the activity holds exactly its capacity.
CapacityReachedAndRefused ==
    /\ log # <<>>
    /\ log[1].op = "signup"
    /\ log[1].body = <<"Activity is full">>
    /\ Count(participants, log[1].activity_name) = Capacity(log[1].activity_name)

\* C3: with the requests served one after the other, no activity has two
\* participant rows with the same email.
NoDuplicateEmail ==
    \A p \in participants : \A q \in participants :
        (p.activity_name = q.activity_name /\ p.email = q.email) => p = q

\* C3's case: a signup for an email that an earlier request (not the seed)
\* enrolled has just been refused, and the email has one row.
DuplicateRefused ==
    /\ log # <<>>
    /\ log[1].op = "signup"
    /\ log[1].body = <<"Student is already signed up">>
    /\ \E p \in Enrolments(participants, log[1].activity_name, log[1].email) :
          p \notin PersistedStore.participants
    /\ Cardinality(Enrolments(participants, log[1].activity_name, log[1].email)) = 1

\* The response the signup rules give for a request that found the store
\* as in `before`: the first failing precondition decides.
ExpectedSignup(entry) ==
    LET a == entry.activity_name
        table == entry.before.participants
    IN IF a \notin entry.before.names THEN <<404, <<"Activity not found">>>>
       ELSE IF Enrolments(table, a, entry.email) # {}
            THEN <<400, <<"Student is already signed up">>>>
       ELSE IF Capacity(a) > 0 /\ Count(table, a) >= Capacity(a)
            THEN <<400, <<"Activity is full">>>>
       ELSE <<200, <<"Signed up ", entry.email, " for ", a>>>>

\* C5: a signup's response is decided by the first failing precondition in
\* the order unknown activity (404), already signed up (400), full (400);
\* it succeeds exactly when none fails.
SignupOutcomeOrder ==
    \A i \in 1..Len(log) :
        log[i].op = "signup" => <<log[i].status, log[i].body>> = ExpectedSignup(log[i])

\* C5's case: an email already enrolled in a full activity signs up again
\* and is told it is already signed up.
AlreadyEnrolledInFull ==
    /\ log # <<>>
    /\ log[1].op = "signup"
    /\ log[1].activity_name \in log[1].before.names
    /\ Count(log[1].before.participants, log[1].activity_name) = Capacity(log[1].activity_name)
    /\ Enrolments(log[1].before.participants, log[1].activity_name, log[1].email) # {}
    /\ log[1].status = 400
    /\ log[1].body = <<"Student is already signed up">>

\* Exactly one place is free in the activity.
OneFreeSlot(snapshot, activity_name) ==
    /\ activity_name \in snapshot.names
    /\ Capacity(activity_name) > 0
    /\ Count(snapshot.participants, activity_name) = Capacity(activity_name) - 1

\* C2: two signups for different emails that both entered their handler
\* when the same activity had one free place (the one that returned second
\* had entered before the first one committed) do not both succeed, and the
\* activity does not end above its capacity.
LastSlotWonOnce ==
    (/\ Len(log) = 2
     /\ log[1].op = "signup" /\ log[2].op = "signup"
     /\ log[1].activity_name = log[2].activity_name
     /\ log[1].email # log[2].email
     /\ OneFreeSlot(log[1].before, log[1].activity_name)
     /\ OneFreeSlot(log[2].before, log[2].activity_name))
    => /\ ~(log[1].status = 200 /\ log[2].status = 200)
       /\ Count(log[1].after.participants, log[1].activity_name) <= Capacity(log[1].activity_name)

\* C4: between the checks of a signup and its insert nothing is committed
\* to the activity's participants (the rows it decided on are the rows it
\* adds to), and no email ends with two rows in one activity.
CheckThenActAtomic ==
    /\ \A t \in Threads :
          req[t].pc = "commit" =>
             {p \in participants : p.activity_name = req[t].activity_name} = req[t].loaded
    /\ NoDuplicateEmail

\* The email has no row in the activity.
NotEnrolled(snapshot, activity_name, email) ==
    Enrolments(snapshot.participants, activity_name, email) = {}

\* The activity has no limit or has room.
HasRoom(snapshot, activity_name) ==
    Capacity(activity_name) > 0 =>
        Count(snapshot.participants, activity_name) < Capacity(activity_name)

\* C6: signup twice in a row with a pair not yet enrolled, in an activity
\* with room: the first succeeds, the second gets 400 "Student is already
\* signed up", and the activity ends with exactly one row more.
SignupTwiceInARow ==
    (/\ Len(log) = 2
     /\ log[1].op = "signup" /\ log[2].op = "signup"
     /\ log[1].activity_name = log[2].activity_name
     /\ log[1].email = log[2].email
     /\ log[2].activity_name \in log[2].before.names
     /\ NotEnrolled(log[2].before, log[2].activity_name, log[2].email)
     /\ HasRoom(log[2].before, log[2].activity_name))
    => /\ log[2].status = 200
       /\ log[1].status = 400
       /\ log[1].body = <<"Student is already signed up">>
       /\ Count(log[1].after.participants, log[1].activity_name)
             = Count(log[2].before.participants, log[2].activity_name) + 1

\* C6's case: the same pair was signed up twice in a row, successfully the
\* first time.
SignedUpTwice ==
    /\ Len(log) = 2
    /\ log[1].op = "signup" /\ log[2].op = "signup"
    /\ log[1].activity_name = log[2].activity_name
    /\ log[1].email = log[2].email
    /\ log[2].status = 200
    /\ log[1].status = 400

\* C7: unregister of an email with no row in an existing activity gets 400
\* "Student is not signed up for this activity" and leaves the store as it
\* was.
UnregisterNotEnrolled ==
    \A i \in 1..Len(log) :
        (/\ log[i].op = "unregister"
         /\ log[i].activity_name \in log[i].before.names
         /\ NotEnrolled(log[i].before, log[i].activity_name, log[i].email))
        => /\ log[i].status = 400
           /\ log[i].body = <<"Student is not signed up for this activity">>
           /\ log[i].after = log[i].before

\* C7's case: such an unregister has returned; the email is enrolled in
\* another activity.
UnregisterNotEnrolledDone ==
    /\ log # <<>>
    /\ log[1].op = "unregister"
    /\ log[1].activity_name \in log[1].before.names
    /\ NotEnrolled(log[1].before, log[1].activity_name, log[1].email)
    /\ \E p \in log[1].before.participants : p.email = log[1].email
    /\ log[1].status = 400

\* C8: signup and unregister for a name that is not in the activities table
\* get 404 "Activity not found", create no activity and change no
\* participant row.
UnknownActivityNotFound ==
    /\ \A i \in 1..Len(log) :
          (/\ log[i].op \in {"signup", "unregister"}
           /\ log[i].activity_name \notin log[i].before.names)
          => /\ log[i].status = 404
             /\ log[i].body = <<"Activity not found">>
             /\ log[i].after = log[i].before
    /\ \A t \in Threads :
          req[t].op \in {"signup", "unregister"} =>
             req[t].activity_name \in req[t].before.names

\* C8's case: a signup and an unregister for an unknown activity have
\* returned.
UnknownActivityDone ==
    /\ Len(log) = 2
    /\ {log[1].op, log[2].op} = {"signup", "unregister"}
    /\ log[1].activity_name \notin DOMAIN activities
    /\ log[2].activity_name \notin DOMAIN activities
    /\ log[1].status = 404 /\ log[2].status = 404

\* The emails of each activity as a collection: how often each occurs.
SameRoster(s1, s2) ==
    /\ s1.names = s2.names
    /\ \A n \in s1.names :
          \A e \in {p.email : p \in s1.participants \cup s2.participants} :
             Cardinality(Enrolments(s1.participants, n, e))
                = Cardinality(Enrolments(s2.participants, n, e))

\* C9: a successful signup immediately followed by unregister of the same
\* pair: the unregister succeeds and every activity has the participants it
\* had before the signup.
SignupThenUnregisterRestores ==
    (/\ Len(log) = 2
     /\ log[2].op = "signup" /\ log[2].status = 200
     /\ log[1].op = "unregister"
     /\ log[1].activity_name = log[2].activity_name
     /\ log[1].email = log[2].email)
    => /\ log[1].status = 200
       /\ SameRoster(log[1].after, log[2].before)

\* C9's case: a signup succeeded and the unregister of the same pair has
\* returned.
SignupThenUnregisterDone ==
    /\ Len(log) = 2
    /\ log[2].op = "signup" /\ log[2].status = 200
    /\ log[1].op = "unregister"
    /\ log[1].activity_name = log[2].activity_name
    /\ log[1].email = log[2].email
    /\ log[2].after # log[2].before

\* The seed catalog in the shape of a listing.
CatalogListing ==
    [n \in {initial_activities[i].name : i \in 1..Len(initial_activities)} |->
        LET info == initial_activities[CHOOSE i \in 1..Len(initial_activities) :
                                          initial_activities[i].name = n]
        IN [description |-> info.description,
            schedule |-> info.schedule,
            max_participants |-> info.max_participants,
            participants |-> info.participants]]

\* C10: startup on a store with no activity leaves exactly the catalog (9
\* activities with their participants, as a listing shows them); on any
\* other store it changes no activity and no participant row (so the
\* listing, which is read from these two tables, is the same as before).
StartupSeedsOnlyWhenEmpty ==
    [][startup_event =>
         IF DOMAIN activities = {}
         THEN /\ activities_to_dict(Store)' = CatalogListing
              /\ Cardinality(DOMAIN activities') = 9
         ELSE UNCHANGED <<activities, participants>>]_vars

\* C10's case: the server has been restarted after requests that changed
\* the store (the participants are neither the seeded nor the persisted
\* ones).
RestartedAfterChanges ==
    /\ up
    /\ restarted
    /\ log # <<>> /\ log[1].status = 200
    /\ participants = log[1].after.participants
    /\ participants # PersistedStore.participants
    /\ participants # init_db(EmptyStore, initial_activities).participants

\* A step of thread t's handler (any of its statements).
HandlerStep(t) ==
    \/ \E a \in RequestNames, e \in RequestEmails : signup_for_activity(t, a, e)
    \/ \E a \in RequestNames, e \in RequestEmails : unregister_from_activity(t, a, e)
    \/ signup_check(t)
    \/ signup_commit(t)
    \/ unregister_find(t)
    \/ unregister_delete(t)

\* The request that thread t is handling, or takes in this step.
Handled(t) ==
    IF req[t].pc = "idle" /\ req'[t].pc # "idle" THEN req'[t]
    ELSE IF req[t].pc = "idle" THEN log'[1]
    ELSE req[t]

\* C11: a step that returns success for a signup adds exactly one row, of
\* the given email in the given activity; one that returns success for an
\* unregister removes exactly one row of the given pair; every other step
\* of a handler (a failure, or a step before the response) changes no row.
NoPartialSuccess ==
    [][\A t \in Threads :
         HandlerStep(t) =>
            LET r == Handled(t)
                succeeds == req'[t].pc = "idle" /\ log'[1].status = 200
            IN IF succeeds /\ r.op = "signup"
               THEN \E row \in participants' \ participants :
                       /\ row.email = r.email
                       /\ row.activity_name = r.activity_name
                       /\ participants' = participants \cup {row}
               ELSE IF succeeds /\ r.op = "unregister"
               THEN \E row \in participants \ participants' :
                       /\ row.email = r.email
                       /\ row.activity_name = r.activity_name
                       /\ participants' = participants \ {row}
               ELSE UNCHANGED participants]_vars

\* C18: two unregisters of the same pair that both entered their handler
\* when the pair had exactly one row (the one that returned second had
\* entered before the first one committed) do not both report success: one
\* of them gets 400 "Student is not signed up for this activity".
OneUnregisterWins ==
    (/\ Len(log) = 2
     /\ log[1].op = "unregister" /\ log[2].op = "unregister"
     /\ log[1].activity_name = log[2].activity_name
     /\ log[1].email = log[2].email
     /\ \A i \in {1, 2} :
           Cardinality(Enrolments(log[i].before.participants,
                                  log[i].activity_name, log[i].email)) = 1)
    => /\ ~(log[1].status = 200 /\ log[2].status = 200)
       /\ \E i \in {1, 2} :
             /\ log[i].status = 400
             /\ log[i].body = <<"Student is not signed up for this activity">>

\* C17: when an unregister returns success, the email has no row in the
\* activity; when a signup returns success, the email has exactly one row
\* in the activity (the store is the one at the moment of the response,
\* whatever requests were running beside it).
ListAgreesAfterSuccess ==
    \A i \in 1..Len(log) :
        log[i].status = 200 =>
           LET n == Cardinality(Enrolments(log[i].after.participants,
                                           log[i].activity_name, log[i].email))
           IN /\ log[i].op = "unregister" => n = 0
              /\ log[i].op = "signup" => n = 1

\* C12: a worker thread that is in no handler holds no open session,
\* whichever way its last handler was left (response 200, 404, 400, or an
\* error of the store); so with no request in flight no session is open.
SessionsReleased ==
    /\ \A t \in Threads : req[t].pc = "idle" => ~req[t].session
    /\ Quiet => Cardinality({t \in Threads : req[t].session}) = 0

\* C12's case: no request is in flight after a handler was left by a store
\* error and another by a refusal.
LeftByErrorAndRefusal ==
    /\ Quiet
    /\ Len(log) = 2
    /\ log[1].status = 500
    /\ log[2].status \in {400, 404}

\* C13: once the store has its activities, no step (startup, list, signup,
\* unregister, whole or in part) adds, removes or alters an activity: the
\* set of names and each description, schedule and max_participants stay
\* the same; and the steps of a listing change no participant row either.
CatalogFixed ==
    [][/\ DOMAIN activities # {} => activities' = activities
       /\ \A t \in Threads :
             (get_activities(t) \/ list_activities(t)) =>
                 UNCHANGED <<activities, participants>>]_vars

\* C13's case: after a successful signup or unregister and a listing, the
\* activities are those of the seeding.
CatalogAfterCalls ==
    /\ Len(log) = 2
    /\ log[1].op = "list"
    /\ log[2].op \in {"signup", "unregister"} /\ log[2].status = 200
    /\ participants # init_db(EmptyStore, initial_activities).participants
    /\ \A i \in 1..Len(initial_activities) :
          LET info == initial_activities[i]
          IN /\ info.name \in DOMAIN activities
             /\ activities[info.name].description = info.description
             /\ activities[info.name].schedule = info.schedule
             /\ activities[info.name].max_participants = info.max_participants

\* C16: every participant row names an activity, and that activity exists.
RowsReferenceActivity ==
    \A p \in participants :
        /\ p.activity_name # ""
        /\ p.activity_name \in DOMAIN activities

\* C16's case: rows have been added and removed by requests that ran side
\* by side.
RowsAddedAndRemoved ==
    /\ Len(log) = 2
    /\ log[1].status = 200 /\ log[2].status = 200
    /\ {log[1].op, log[2].op} = {"signup", "unregister"}
    /\ log[1].before = log[2].before

\* C15: in an activity whose max_participants is 0 (given as 0, or not
\* given in the seed data), a signup of an email that had no row there when
\* the handler was entered never gets "Activity is full", whatever the
\* number of rows; it succeeds, unless the email was enrolled by a request
\* running beside it.
NoLimitNeverFull ==
    \A i \in 1..Len(log) :
        (/\ log[i].op = "signup"
         /\ log[i].activity_name \in log[i].before.names
         /\ Capacity(log[i].activity_name) = 0
         /\ NotEnrolled(log[i].before, log[i].activity_name, log[i].email))
        => /\ log[i].body # <<"Activity is full">>
           /\ \/ log[i].status = 200
              \/ ~NotEnrolled(log[i].after, log[i].activity_name, log[i].email)

\* C15's case: signups into each of the two activities without a limit
\* have succeeded, the last one when the activity had already grown.
SignedUpWithoutLimit ==
    /\ Len(log) = 2
    /\ log[1].op = "signup" /\ log[1].status = 200
    /\ log[2].op = "signup" /\ log[2].status = 200
    /\ Capacity("Math Club") = 0 /\ Capacity("Chess Club") = 0
    /\ Count(log[1].before.participants, log[1].activity_name)
          > Count(UnlimitedStore.participants, log[1].activity_name)
    /\ Count(participants, "Chess Club") > Count(UnlimitedStore.participants, "Chess Club")

\* What a request gives when it runs alone on a store: its response and
\* the store it leaves.
Alone(snapshot, call) ==
    LET a == call.activity_name
        e == call.email
        table == snapshot.participants
        fresh == 1 + Cardinality(table) + Cardinality({p \in table : p.id > Cardinality(table)})
        answer(status, body, after) ==
            [status |-> status, body |-> body,
             snapshot |-> [names |-> snapshot.names, participants |-> after]]
    IN IF a \notin snapshot.names
       THEN answer(404, <<"Activity not found">>, table)
       ELSE IF call.op = "signup"
       THEN IF Enrolments(table, a, e) # {}
            THEN answer(400, <<"Student is already signed up">>, table)
            ELSE IF Capacity(a) > 0 /\ Count(table, a) >= Capacity(a)
            THEN answer(400, <<"Activity is full">>, table)
            ELSE answer(200, <<"Signed up ", e, " for ", a>>,
                        table \cup {[id |-> fresh, email |-> e, activity_name |-> a]})
       ELSE IF Enrolments(table, a, e) = {}
            THEN answer(400, <<"Student is not signed up for this activity">>, table)
            ELSE answer(200, <<"Unregistered ", e, " from ", a>>,
                        table \ {CHOOSE p \in Enrolments(table, a, e) : TRUE})

\* C14: the only two requests since the start, a signup or unregister on
\* one activity and one on another activity, with their steps interleaved
\* in any way (log[2] returned first, so it entered on the store that
\* neither had changed): each gets the response it gets when the two run
\* one after the other, in either order, and the store ends with the
\* participants either order leaves.
DistinctActivitiesIndependent ==
    (/\ calls = Len(log)
     /\ Len(log) = 2
     /\ log[1].op \in {"signup", "unregister"}
     /\ log[2].op \in {"signup", "unregister"}
     /\ log[1].activity_name # log[2].activity_name)
    => LET first == Alone(log[2].before, log[1])
           second == Alone(log[2].before, log[2])
           firstLater == Alone(second.snapshot, log[1])
           secondLater == Alone(first.snapshot, log[2])
       IN /\ log[1].status = first.status /\ log[1].body = first.body
          /\ log[1].status = firstLater.status /\ log[1].body = firstLater.body
          /\ log[2].status = second.status /\ log[2].body = second.body
          /\ log[2].status = secondLater.status /\ log[2].body = secondLater.body
          /\ SameRoster(log[1].after, firstLater.snapshot)
          /\ SameRoster(log[1].after, secondLater.snapshot)

\* C14's case: the two requests ran side by side (both entered on the same
\* store, and both changed it).
SideBySideOnDistinctActivities ==
    /\ calls = Len(log)
    /\ Len(log) = 2
    /\ log[1].activity_name # log[2].activity_name
    /\ log[1].before = log[2].before
    /\ log[1].status = 200 /\ log[2].status = 200
    /\ log[1].op \in {"signup", "unregister"}
    /\ log[2].op \in {"signup", "unregister"}

====
